---- MODULE Spec2Model ----
(***************************************************************************)
(* Model of the numeric core of Riemman3D.py: compute_zeta_surface (grid   *)
(* construction, the 2-D sweep with per-point error containment, progress  *)
(* reporting) and the critical-line pass of create_zeta_plot.              *)
(*                                                                         *)
(* Reals are modelled exactly as rationals.  Every sigma and t value is an *)
(* integer count of thousandths (0.01 is 10, 0.5 is 500, 1.0 is 1000).     *)
(* A coordinate vector built by np.linspace with num points is kept as its *)
(* numerators over the common divisor LinspaceDiv(num), so element k of    *)
(* linspace(start, stop, num) stands for the real                          *)
(* linspace(...)[k] / (1000 * LinspaceDiv(num)).                           *)
(***************************************************************************)
EXTENDS Integers, Sequences, FiniteSets

VARIABLES
    pc,                \* position of the invocation: idle, sweep, line, done, raised
    args,              \* the arguments of create_zeta_plot
    sigma_values,      \* np.linspace(sigma_min_adj, sigma_max_adj, num_points_sigma)
    t_values,          \* np.linspace(0.1, t_max, num_points_t)
    Z,                 \* the magnitude surface, Z[i][j], rows = t-index
    writes,            \* writes[i][j]: number of assignments to Z[i, j]
    completed_points,  \* loop counter of the sweep
    caught,            \* number of times the except clause of the sweep ran
    progress_log,      \* calls made on the progress bar, in order
    critical_line_z,   \* the critical-line sample
    line_index         \* number of critical-line points evaluated so far

vars == <<pc, args, sigma_values, t_values, Z, writes, completed_points, caught,
          progress_log, critical_line_z, line_index>>

(***************************************************************************)
(* Bounds of the model.                                                    *)
(***************************************************************************)
\* Small requests draw each resolution from -1..MaxPoints.
MaxPoints == 2
\* At most this many grid evaluations raise in one sweep.
MaxFailures == 1
\* Resolutions of the large request, whose grid reaches the progress cadence.
LargeSigmaPoints == 10
LargeTPoints == 20

(***************************************************************************)
(* Program constants, in thousandths where they are reals.                 *)
(***************************************************************************)
SigmaFloor == 10
SigmaCeil == 990
Pole == 1000
TMin == 100
CriticalSigma == 500
CriticalLinePoints == 100
ProgressEvery == 100

(***************************************************************************)
(* Requests.                                                               *)
(***************************************************************************)
SigmaInputs == {0, 400, 500, 1000}
TInputs == {50, 100, 30000}

SmallInputs ==
    [sigma_min : SigmaInputs, sigma_max : SigmaInputs, t_max : TInputs,
     num_points_sigma : -1..MaxPoints, num_points_t : -1..MaxPoints]

LargeInputs ==
    [sigma_min : {600}, sigma_max : {900}, t_max : {30000},
     num_points_sigma : {LargeSigmaPoints},
     num_points_t : {LargeTPoints}]

Inputs == SmallInputs \cup LargeInputs

(***************************************************************************)
(* Pure helpers.                                                           *)
(***************************************************************************)
Max(a, b) == IF a >= b THEN a ELSE b
Min(a, b) == IF a <= b THEN a ELSE b

\* the lower clamp written with min for max
sigma_min_adj_min(sigma_min) == Min(SigmaFloor, sigma_min)

\* sigma_min_adj = max(0.01, sigma_min)
sigma_min_adj(sigma_min) == Max(SigmaFloor, sigma_min)

\* sigma_max_adj = min(0.99, sigma_max) if sigma_max >= 1.0 else sigma_max
sigma_max_adj(sigma_max) ==
    IF sigma_max >= Pole THEN Min(SigmaCeil, sigma_max) ELSE sigma_max

\* np.linspace divides the span by num - 1 when num > 1, else by 1
LinspaceDiv(num) == IF num > 1 THEN num - 1 ELSE 1

\* np.linspace raises ValueError for a negative number of samples
LinspaceRaises(num) == num < 0

\* a linspace whose samples start one step late: arange(1, num + 1) * step + start
linspace_shifted(start, stop, num) ==
    [k \in 1..num |-> start * LinspaceDiv(num) + k * (stop - start)]

\* np.linspace(start, stop, num), numerators over LinspaceDiv(num):
\* y = arange(0, num) * step + start, and y[-1] = stop when num > 1
linspace(start, stop, num) ==
    [k \in 1..num |->
        IF num > 1 /\ k = num
        THEN stop * LinspaceDiv(num)
        ELSE start * LinspaceDiv(num) + (k - 1) * (stop - start)]

\* np.zeros_like(X) for X of shape (rows, cols)
zeros(rows, cols, v) == [i \in 1..rows |-> [j \in 1..cols |-> v]]

\* total_points = len(t_values) * len(sigma_values)
total_points == Len(t_values) * Len(sigma_values)

\* row and column (1-based) of the next point of the nested loops
NextRow == (completed_points \div Len(sigma_values)) + 1
NextCol == (completed_points % Len(sigma_values)) + 1

\* the cadence test made before the counter is incremented
ProgressDueBeforeIncrement(completed) == (completed - 1) % ProgressEvery = 0

\* the test guarding the progress update
ProgressDue(completed) == completed % ProgressEvery = 0

\* the fraction with its two operands swapped
ProgressFractionSwapped(completed, total) ==
    [kind |-> "progress", num |-> total, den |-> completed]

\* the fraction handed to progress_bar.progress
ProgressFraction(completed, total) == [kind |-> "progress", num |-> completed, den |-> total]

\* the range test with strict comparisons
CriticalLineStrictlyInRange(sigma_min, sigma_max) ==
    sigma_min < CriticalSigma /\ CriticalSigma < sigma_max

\* if sigma_min <= 0.5 <= sigma_max
CriticalLineInRange(sigma_min, sigma_max) ==
    sigma_min <= CriticalSigma /\ CriticalSigma <= sigma_max

(***************************************************************************)
(* Initial state: a request has been chosen, nothing has been invoked.     *)
(***************************************************************************)
Init ==
    /\ pc = "idle"
    /\ args \in Inputs
    /\ sigma_values = <<>>
    /\ t_values = <<>>
    /\ Z = <<>>
    /\ writes = <<>>
    /\ completed_points = 0
    /\ caught = 0
    /\ progress_log = <<>>
    /\ critical_line_z = <<>>
    /\ line_index = 0

(***************************************************************************)
(* create_zeta_plot calls compute_zeta_surface, which builds the grid and  *)
(* the progress bar.  A negative resolution makes np.linspace raise.       *)
(***************************************************************************)
Invoke ==
    /\ pc = "idle"
    /\ IF LinspaceRaises(args.num_points_sigma) \/ LinspaceRaises(args.num_points_t)
       THEN /\ pc' = "raised"
            /\ UNCHANGED <<sigma_values, t_values, Z, writes, progress_log>>
       ELSE /\ pc' = "sweep"
            /\ sigma_values' = linspace(sigma_min_adj(args.sigma_min),
                                        sigma_max_adj(args.sigma_max),
                                        args.num_points_sigma)
            /\ t_values' = linspace(TMin, args.t_max, args.num_points_t)
            /\ Z' = zeros(args.num_points_t, args.num_points_sigma, "zero")
            /\ writes' = zeros(args.num_points_t, args.num_points_sigma, 0)
            /\ progress_log' = <<[kind |-> "progress", num |-> 0, den |-> 1]>>
    /\ UNCHANGED <<args, completed_points, caught, critical_line_z, line_index>>

(***************************************************************************)
(* One iteration of the nested loops: evaluate, contain a failure, count,  *)
(* report progress.                                                        *)
(***************************************************************************)
\* a handler that swallows the failure and leaves the cell as it was
CellValueUntouched(raised) == IF raised THEN "zero" ELSE "val"

\* the value stored for a point: abs(mpmath.zeta(s)), or NaN when it raised
CellValue(raised) == IF raised THEN "nan" ELSE "val"

GridPoint ==
    /\ pc = "sweep"
    /\ completed_points < total_points
    /\ \E raised \in BOOLEAN :
          /\ raised => caught < MaxFailures
          /\ Z' = [Z EXCEPT ![NextRow][NextCol] = CellValue(raised)]
          /\ caught' = IF raised THEN caught + 1 ELSE caught
    /\ writes' = [writes EXCEPT ![NextRow][NextCol] = @ + 1]
    /\ completed_points' = completed_points + 1
    /\ progress_log' =
          IF ProgressDue(completed_points')
          THEN Append(progress_log, ProgressFraction(completed_points', total_points))
          ELSE progress_log
    /\ UNCHANGED <<pc, args, sigma_values, t_values, critical_line_z, line_index>>

(***************************************************************************)
(* The loops are over: the progress bar is emptied, compute_zeta_surface   *)
(* returns and create_zeta_plot decides on the critical line.              *)
(***************************************************************************)
ReturnSurface ==
    /\ pc = "sweep"
    /\ completed_points = total_points
    /\ progress_log' = Append(progress_log, [kind |-> "empty", num |-> 0, den |-> 1])
    /\ IF CriticalLineInRange(args.sigma_min, args.sigma_max)
       THEN /\ critical_line_z' = [k \in 1..CriticalLinePoints |-> "zero"]
            /\ pc' = "line"
       ELSE /\ critical_line_z' = <<>>
            /\ pc' = "done"
    /\ UNCHANGED <<args, sigma_values, t_values, Z, writes, completed_points, caught,
                   line_index>>

(***************************************************************************)
(* One iteration of the critical-line loop.  The evaluation is not inside  *)
(* a try block: when it raises, the exception leaves create_zeta_plot.     *)
(***************************************************************************)
LineFailure(raised) == IF raised THEN "raised" ELSE "line"

LinePoint ==
    /\ pc = "line"
    /\ line_index < Len(critical_line_z)
    /\ \E raised \in BOOLEAN :
          /\ pc' = LineFailure(raised)
          /\ IF pc' = "raised"
             THEN UNCHANGED <<critical_line_z, line_index>>
             ELSE /\ critical_line_z' = [critical_line_z EXCEPT ![line_index + 1] = "val"]
                  /\ line_index' = line_index + 1
    /\ UNCHANGED <<args, sigma_values, t_values, Z, writes, completed_points, caught,
                   progress_log>>

LineDone ==
    /\ pc = "line"
    /\ line_index = Len(critical_line_z)
    /\ pc' = "done"
    /\ UNCHANGED <<args, sigma_values, t_values, Z, writes, completed_points, caught,
                   progress_log, critical_line_z, line_index>>

Next == Invoke \/ GridPoint \/ ReturnSurface \/ LinePoint \/ LineDone

Spec == Init /\ [][Next]_vars


(***************************************************************************)
(* Vocabulary of the properties.                                           *)
(***************************************************************************)
Cells == {<<i, j>> : i \in 1..Len(Z), j \in 1..(IF Z = <<>> THEN 0 ELSE Len(Z[1]))}

CellsWith(v) == {c \in Cells : Z[c[1]][c[2]] = v}

\* the grid has been built: compute_zeta_surface is past line 33
GridBuilt == progress_log # <<>>

\* progress_bar.empty() has run: compute_zeta_surface has returned
SweepReturned ==
    progress_log # <<>> /\ progress_log[Len(progress_log)].kind = "empty"

\* the request violates a precondition of the specification
InvalidRequest ==
    \/ args.sigma_min > args.sigma_max
    \/ args.t_max < TMin
    \/ args.num_points_sigma < 2
    \/ args.num_points_t < 2

\* a vector of numerators is strictly increasing, constant, strictly decreasing
StrictlyIncreasing(v) == \A k \in 1..(Len(v) - 1) : v[k] < v[k + 1]
Constant(v) == \A k \in 1..(Len(v) - 1) : v[k] = v[k + 1]
StrictlyDecreasing(v) == \A k \in 1..(Len(v) - 1) : v[k] > v[k + 1]

(***************************************************************************)
(* C1: in the grid sweep a failing point's cell becomes NaN, the sweep      *)
(* goes on to evaluate every remaining point (when compute_zeta_surface    *)
(* has returned, all t-resolution x sigma-resolution cells hold a value or *)
(* NaN, and the NaN cells are exactly the evaluations that raised), and no *)
(* failure leaves compute_zeta_surface (an exception is only ever raised   *)
(* before the sweep starts or after it has returned).                      *)
(***************************************************************************)
C1_GridFailureContained ==
    /\ pc = "sweep" /\ completed_points > 0 =>
          LET i == ((completed_points - 1) \div args.num_points_sigma) + 1
              j == ((completed_points - 1) % args.num_points_sigma) + 1
          IN  /\ Z[i][j] \in {"val", "nan"}
              /\ Z[i][j] = "nan" => caught > 0
              /\ caught = 0 => Z[i][j] = "val"
    /\ SweepReturned =>
          /\ completed_points = args.num_points_t * args.num_points_sigma
          /\ CellsWith("zero") = {}
          /\ Cardinality(CellsWith("nan")) = caught
    /\ pc = "raised" => (~GridBuilt \/ SweepReturned)

\* a sweep whose first point failed has been carried to its end
C1_Witness ==
    /\ SweepReturned
    /\ args.num_points_sigma >= 2
    /\ args.num_points_t >= 1
    /\ Z[1][1] = "nan"
    /\ Z[1][2] = "val"
    /\ Z[Len(Z)][Len(Z[1])] = "val"

(***************************************************************************)
(* C2: the critical-line pass contains a failing point like the grid sweep *)
(* does: once the pass has started the call does not raise, and it ends    *)
(* with every one of its points evaluated.                                 *)
(***************************************************************************)
C2_LineFailureContained ==
    critical_line_z # <<>> =>
        /\ pc \in {"line", "done"}
        /\ pc = "done" => line_index = Len(critical_line_z)

(***************************************************************************)
(* C3: a request with inverted sigma bounds, inverted t bounds or a        *)
(* resolution below 2 is rejected before any point is evaluated and before *)
(* any progress is emitted.                                                *)
(***************************************************************************)
C3_InvalidRequestRejected ==
    InvalidRequest =>
        /\ pc \in {"idle", "raised"}
        /\ progress_log = <<>>
        /\ completed_points = 0

(***************************************************************************)
(* C4: the emitted progress fractions lie in [0, 1] and never decrease,    *)
(* no progress is emitted after the bar has been emptied, and when         *)
(* compute_zeta_surface has returned the bar has been emptied (or the last *)
(* fraction is 1).                                                         *)
(***************************************************************************)
C4_ProgressMonotone ==
    /\ \A k \in 1..Len(progress_log) :
          progress_log[k].kind = "progress" =>
              /\ progress_log[k].den > 0
              /\ 0 <= progress_log[k].num
              /\ progress_log[k].num <= progress_log[k].den
    /\ \A k \in 1..(Len(progress_log) - 1) :
          /\ progress_log[k].kind = "progress"
          /\ progress_log[k + 1].kind = "progress" =>
                (progress_log[k].num * progress_log[k + 1].den
                    <= progress_log[k + 1].num * progress_log[k].den)
    /\ pc \in {"line", "done"} \/ (pc = "raised" /\ GridBuilt) =>
          \/ SweepReturned
          \/ progress_log[Len(progress_log)].num = progress_log[Len(progress_log)].den

\* the bar went 0, 1/2, 1 and was emptied
C4_Witness ==
    /\ pc = "done"
    /\ Len(progress_log) = 4
    /\ progress_log[2].num * 2 = progress_log[2].den
    /\ progress_log[3].num = progress_log[3].den
    /\ progress_log[4].kind = "empty"

(***************************************************************************)
(* C5: for a valid sigma range the sigma vector satisfies                  *)
(* 0 < first <= last < 1 when sigma_max >= 1.0, and its first and last     *)
(* elements equal sigma_min and sigma_max when sigma_max < 1.0.            *)
(***************************************************************************)
C5_SigmaVectorBounds ==
    GridBuilt /\ args.sigma_min <= args.sigma_max /\ args.num_points_sigma >= 2 =>
        LET d == LinspaceDiv(args.num_points_sigma)
            first == sigma_values[1]
            last == sigma_values[Len(sigma_values)]
        IN  IF args.sigma_max >= Pole
            THEN 0 < first /\ first <= last /\ last < Pole * d
            ELSE first = args.sigma_min * d /\ last = args.sigma_max * d

RunsBetween(v, start, stop, num) ==
    /\ v[1] = start * LinspaceDiv(num)
    /\ v[num] = stop * LinspaceDiv(num)
    /\ \A k \in 1..(num - 2) : v[k + 1] - v[k] = v[k + 2] - v[k + 1]
    /\ start < stop <=> StrictlyIncreasing(v)
    /\ start = stop <=> Constant(v)
    /\ start > stop <=> StrictlyDecreasing(v)

C7_CriticalLineSample ==
    pc = "done" =>
        IF args.sigma_min > 500 \/ args.sigma_max < 500
        THEN critical_line_z = <<>>
        ELSE /\ Len(critical_line_z) = 100
             /\ \A k \in 1..100 : critical_line_z[k] = "val"

\* a request whose range ends exactly at 0.5, on a grid of other resolution
C7_Witness ==
    /\ pc = "done"
    /\ args.sigma_max = 500
    /\ args.num_points_sigma = 2
    /\ Len(critical_line_z) = 100

(***************************************************************************)
(* C8: an invocation on a valid request only moves idle -> running ->      *)
(* done: it never ends in another outcome, and in done every cell of the   *)
(* t-resolution x sigma-resolution surface has been written exactly once,  *)
(* the critical-line sample is available and progress has been signalled   *)
(* complete.                                                               *)
(***************************************************************************)
C8_IdleRunningDone ==
    ~InvalidRequest =>
        /\ pc \in {"idle", "sweep", "line", "done"}
        /\ pc = "done" =>
              /\ Len(Z) = args.num_points_t
              /\ \A i \in 1..Len(Z) : Len(Z[i]) = args.num_points_sigma
              /\ \A c \in Cells : writes[c[1]][c[2]] = 1
              /\ SweepReturned
              /\ line_index = Len(critical_line_z)

(***************************************************************************)
(* C9: during the sweep a fraction is emitted exactly when the count of    *)
(* completed points is a positive multiple of 100 (the k-th emission is    *)
(* made at 100 * k points and is 100 * k / total_points), and the count    *)
(* has been incremented once for every point evaluated, failed or not: at  *)
(* every emission and at the end of the sweep it is the number of cells    *)
(* evaluated so far, each written once.                                    *)
(***************************************************************************)
C9_ProgressCadence ==
    pc = "sweep" =>
        /\ Len(progress_log) = 1 + (completed_points \div 100)
        /\ \A k \in 1..(Len(progress_log) - 1) :
              /\ progress_log[k + 1].kind = "progress"
              /\ progress_log[k + 1].num = 100 * k
              /\ progress_log[k + 1].den = Len(t_values) * Len(sigma_values)
        /\ completed_points % 100 = 0 \/ completed_points = total_points =>
              /\ completed_points = Cardinality(Cells \ CellsWith("zero"))
              /\ completed_points = Cardinality({c \in Cells : writes[c[1]][c[2]] = 1})

\* 150 points done, one of them failed, one fraction emitted so far
C9_Witness ==
    /\ pc = "sweep"
    /\ completed_points = 150
    /\ caught = 1
    /\ Len(progress_log) = 2

(***************************************************************************)
(* C10: the critical line is computed (decision on the requested bounds)   *)
(* if and only if 0.5 lies between the first and the last element of the   *)
(* clamped sigma vector that was sampled.                                  *)
(***************************************************************************)
C10_CriticalLineAgreesWithGrid ==
    SweepReturned /\ args.num_points_sigma >= 2 =>
        LET mid == 500 * (args.num_points_sigma - 1)
            first == sigma_values[1]
            last == sigma_values[Len(sigma_values)]
        IN  critical_line_z # <<>> <=> (first <= mid /\ mid <= last)

\* both bounds were clamped and the critical line was computed
C10_Witness ==
    /\ SweepReturned
    /\ args.num_points_sigma >= 2
    /\ args.sigma_min < SigmaFloor
    /\ args.sigma_max >= Pole
    /\ critical_line_z # <<>>

====
